---- MODULE Spec2Model ----
(***************************************************************************)
(* Model of hbonds_312_summary_gui.py: parse_hbonds (extraction, filter,   *)
(* orientation swap) and main (minimum-distance reduction, sort, summary). *)
(*                                                                         *)
(* Strings are sequences of one-character strings.  A float is a record    *)
(* [w |-> whole part, f |-> thousandths], exact for the decimal texts used *)
(* here (at most three fraction digits).                                   *)
(*                                                                         *)
(* Model of plot_HBonds_summary_gui.py: load_env_table (required columns), *)
(* summarize_composition and main.  The two scripts run as separate        *)
(* processes: each specification holds the other script's state idle.      *)
(***************************************************************************)
EXTENDS Integers, Sequences, FiniteSets

VARIABLES mutLines, wtLines, pc, i, prows, rows, best, detail, summary,
          outDetail, outSum

(* State of plot_HBonds_summary_gui.py, a script of its own. *)
VARIABLES envCols, envRows, envPc, envDf, envError, envSummary, envOut

hbVars == <<mutLines, wtLines, pc, i, prows, rows, best, detail, summary,
            outDetail, outSum>>

envVars == <<envCols, envRows, envPc, envDf, envError, envSummary, envOut>>

vars == <<hbVars, envVars>>

(* Total number of text lines in the two input files together. *)
MaxLines == 3

(* Number of data rows of the environment table. *)
MaxEnvRows == 2

----------------------------------------------------------------------------
(* Characters, in code-point order (str comparison in sorted()). *)
Alphabet ==
  << "#", "(", ")", ".", "0", "1", "2", "3", "4", "5", "6", "7", "8", "9",
     "A", "B", "C", "D", "E", "F", "G", "H", "I", "J", "K", "L", "M", "N",
     "O", "P", "Q", "R", "S", "T", "U", "V", "W", "X", "Y", "Z", "_",
     "t", "u" >>

CodePoint ==
  [c \in {Alphabet[k] : k \in DOMAIN Alphabet} |->
     CHOOSE k \in DOMAIN Alphabet : Alphabet[k] = c]

Ord(c) == CodePoint[c]

Digits == <<"0", "1", "2", "3", "4", "5", "6", "7", "8", "9">>

DigitValue ==
  [c \in {Digits[k] : k \in DOMAIN Digits} |->
     (CHOOSE k \in DOMAIN Digits : Digits[k] = c) - 1]

DigitVal(c) == DigitValue[c]

(* The value of the first k digits of s. *)
RECURSIVE IntUpTo(_, _)
IntUpTo(s, k) == IF k = 0 THEN 0 ELSE 10 * IntUpTo(s, k - 1) + DigitVal(s[k])

(* int(x) on a digit string: leading zeros do not change the value. *)
IntOf(s) == IntUpTo(s, Len(s))

(* Python str < str: lexicographic on code points, a proper prefix is less. *)
RECURSIVE StrLess(_, _)
StrLess(a, b) ==
  IF Len(b) = 0 THEN FALSE
  ELSE IF Len(a) = 0 THEN TRUE
  ELSE IF a[1] # b[1] THEN Ord(a[1]) < Ord(b[1])
  ELSE StrLess(Tail(a), Tail(b))

(* Position of the decimal point in a text matched by \d+\.\d+ *)
DotPos(s) == CHOOSE k \in 1..Len(s) : s[k] = "."

(* Fraction digits read as thousandths. *)
Thousandths(fr) ==
  IF Len(fr) = 1 THEN 100 * IntOf(fr)
  ELSE IF Len(fr) = 2 THEN 10 * IntOf(fr)
  ELSE IntOf(SubSeq(fr, 1, 3))

(* float(d["da"]) *)
FloatOf(s) ==
  [w |-> IntOf(SubSeq(s, 1, DotPos(s) - 1)),
   f |-> Thousandths(SubSeq(s, DotPos(s) + 1, Len(s)))]

FloatLess(x, y) == x.w < y.w \/ (x.w = y.w /\ x.f < y.f)

(* Python min(x, y): y only when y < x. *)
FloatMin(x, y) == IF FloatLess(y, x) THEN y ELSE x

----------------------------------------------------------------------------
(* The two caller-supplied state labels of main. *)
MutLabel == <<"M","u","t","_","A","S","N","3","1","2","(","#","1",")">>

WtLabel == <<"W","T","_","A","S","P","3","1","2","(","#","2",")">>

(* One text line: shaped is whether pat.search finds the grammar in it; d   *)
(* is the content of the line read as the eleven named groups.             *)
TextLine(shaped, m1, c1, r1, n1, a1, m2, c2, r2, n2, a2, da) ==
  [shaped |-> shaped,
   d |-> [m1 |-> m1, c1 |-> c1, r1 |-> r1, n1 |-> n1, a1 |-> a1,
          m2 |-> m2, c2 |-> c2, r2 |-> r2, n2 |-> n2, a2 |-> a2,
          da |-> da]]

ASN == <<"A","S","N">>
TYR == <<"T","Y","R">>
SER == <<"S","E","R">>
N312 == <<"3","1","2">>
N0312 == <<"0","3","1","2">>
N308 == <<"3","0","8">>
N310 == <<"3","1","0">>
ND2 == <<"N","D","2">>
OG == <<"O","G">>
AtO == <<"O">>
ChA == <<"A">>
ChB == <<"B">>
M1 == <<"1">>
D2950 == <<"2",".","9","5","0">>
D295 == <<"2",".","9","5">>
D1000 == <<"1","0","0","0",".","0">>
DHuge == <<"2","0","0","0","0","0","0","0","0","0",".","0">>

(* The lines an input file is made of. *)
LinePool ==
  { TextLine(TRUE,  M1, ChA, ASN, N312, ND2, M1, ChB, TYR, N308, AtO, D2950),
    TextLine(TRUE,  M1, ChB, TYR, N308, AtO, M1, ChA, ASN, N312, ND2, D2950),
    TextLine(TRUE,  M1, ChB, ASN, N312, ND2, M1, ChA, TYR, N308, AtO, D2950),
    TextLine(TRUE,  M1, ChA, ASN, N312, ND2, M1, ChB, ASN, N312, AtO, D2950),
    TextLine(TRUE,  M1, ChA, TYR, N308, AtO, M1, ChB, SER, N310, OG,  D2950),
    TextLine(FALSE, M1, ChA, ASN, N312, ND2, M1, ChB, TYR, N308, AtO, D2950),
    TextLine(TRUE,  M1, ChA, SER, N310, OG,  M1, ChB, ASN, N0312, ND2, D295),
    TextLine(TRUE,  M1, ChA, ASN, N312, ND2, M1, ChB, TYR, N308, AtO, D1000),
    TextLine(TRUE,  M1, ChA, ASN, N312, ND2, M1, ChB, TYR, N308, AtO, DHuge) }

(* Sequences over S of length n. *)
SeqsOfLen(S, n) == [1..n -> S]

----------------------------------------------------------------------------
(* parse_hbonds *)

TargetResidue == 312

is_312(x) == IntOf(x) = TargetResidue

(* m = pat.search(line); "if not m: continue" *)
PatSearch(line) == IF line.shaped THEN <<line.d>> ELSE <<>>

(* A filter that looks at endpoint A only. *)
Involves312_LeftOnly(d) == is_312(d.n1)

(* "if not (is_312(n1) or is_312(n2)): continue" *)
Involves312(d) == is_312(d.n1) \/ is_312(d.n2)

(* A swap that forgets the chain identifiers. *)
Swapped_KeepChains(d) ==
  [m1 |-> d.m2, c1 |-> d.c1, r1 |-> d.r2, n1 |-> d.n2, a1 |-> d.a2,
   m2 |-> d.m1, c2 |-> d.c2, r2 |-> d.r1, n2 |-> d.n1, a2 |-> d.a1,
   da |-> d.da]

(* The dict built in the swap branch. *)
Swapped(d) ==
  [m1 |-> d.m2, c1 |-> d.c2, r1 |-> d.r2, n1 |-> d.n2, a1 |-> d.a2,
   m2 |-> d.m1, c2 |-> d.c1, r2 |-> d.r1, n2 |-> d.n1, a2 |-> d.a1,
   da |-> d.da]

(* A swap decided on the wrong endpoint. *)
Orient_TestsLeft(d) == IF is_312(d.n1) THEN Swapped(d) ELSE d

(* A swap only when endpoint A does not carry the target. *)
Orient_OnlyRight(d) == IF is_312(d.n2) /\ ~is_312(d.n1) THEN Swapped(d) ELSE d

(* "if is_312(d["n2"]): d = {...}" *)
Orient(d) == IF is_312(d.n2) THEN Swapped(d) ELSE d

(* f"{r}{n}{a}" *)
AtomId(r, n, a) == r \o n \o a

(* The tuple appended for an oriented dict. *)
MakeRow(label, d) ==
  [state |-> label, c1 |-> d.c1, center |-> AtomId(d.r1, d.n1, d.a1),
   c2 |-> d.c2, partner |-> AtomId(d.r2, d.n2, d.a2), da |-> FloatOf(d.da)]

(* One iteration of the loop over the lines: the records it appends. *)
ParseLine(line, label) ==
  LET m == PatSearch(line) IN
    IF Len(m) = 0 THEN <<>>
    ELSE IF ~Involves312(m[1]) THEN <<>>
    ELSE <<MakeRow(label, Orient(m[1]))>>

CurLines == IF pc = "parse_mut" THEN mutLines ELSE wtLines

CurLabel == IF pc = "parse_mut" THEN MutLabel ELSE WtLabel

----------------------------------------------------------------------------
(* main: reduction to the minimum distance per key *)

(* key = (state, c1, center, c2, partner) *)
KeyOf(r) ==
  [state |-> r.state, c1 |-> r.c1, center |-> r.center,
   c2 |-> r.c2, partner |-> r.partner]

(* A dict is the sequence of its items in insertion order. *)
DictHas(dct, key) == \E k \in DOMAIN dct : dct[k].key = key

DictIndex(dct, key) == CHOOSE k \in DOMAIN dct : dct[k].key = key

(* dct.get(key, default) *)
DictGet(dct, key, default) ==
  IF DictHas(dct, key) THEN dct[DictIndex(dct, key)].val ELSE default

(* An assignment that never finds the existing key. *)
DictSet_Append(dct, key, val) == Append(dct, [key |-> key, val |-> val])

(* dct[key] = val: an existing key keeps its position, a new one goes last. *)
DictSet(dct, key, val) ==
  IF DictHas(dct, key)
  THEN [dct EXCEPT ![DictIndex(dct, key)].val = val]
  ELSE Append(dct, [key |-> key, val |-> val])

(* The default 1e9 of best.get(key, 1e9). *)
NoBest == [w |-> 1000000000, f |-> 0]

(* best[key] = min(best.get(key, 1e9), da) *)
BestUpdate(dct, r) ==
  DictSet(dct, KeyOf(r), FloatMin(DictGet(dct, KeyOf(r), NoBest), r.da))

(* (k[0], k[1], k[2], k[3], k[4], v) for k, v in best.items() *)
ItemRow(it) ==
  [state |-> it.key.state, c1 |-> it.key.c1, center |-> it.key.center,
   c2 |-> it.key.c2, partner |-> it.key.partner, da |-> it.val]

Items(dct) == [k \in DOMAIN dct |-> ItemRow(dct[k])]

(* key=lambda x: (x[0], x[2], x[4], x[5]), compared as tuples. *)
SortKeyLess(x, y) ==
  IF x.state # y.state THEN StrLess(x.state, y.state)
  ELSE IF x.center # y.center THEN StrLess(x.center, y.center)
  ELSE IF x.partner # y.partner THEN StrLess(x.partner, y.partner)
  ELSE FloatLess(x.da, y.da)

(* x goes behind every element that is not greater than it. *)
InsertStable(s, x) ==
  LET p == Cardinality({k \in DOMAIN s : ~SortKeyLess(x, s[k])}) IN
    SubSeq(s, 1, p) \o <<x>> \o SubSeq(s, p + 1, Len(s))

(* sorted(..., key=...): a stable sort. *)
RECURSIVE Sorted(_)
Sorted(s) ==
  IF Len(s) = 0 THEN <<>>
  ELSE InsertStable(Sorted(SubSeq(s, 1, Len(s) - 1)), s[Len(s)])

----------------------------------------------------------------------------
(* main: per-state summary *)

(* defaultdict(lambda: {"count": 0, "min_da": 999.0}) *)
SummaryDefault == [count |-> 0, min_da |-> [w |-> 999, f |-> 0]]

(* A new state put in front of the others. *)
Touch_Front(sm, state) ==
  IF \E k \in DOMAIN sm : sm[k].key = state THEN sm
  ELSE <<[key |-> state, val |-> [count |-> 0, min_da |-> [w |-> 999, f |-> 0]]]>> \o sm

(* summary[state]: a missing state is inserted with the default. *)
Touch(sm, state) ==
  IF DictHas(sm, state) THEN sm ELSE Append(sm, [key |-> state, val |-> SummaryDefault])

(* A count that grows only when the minimum improves. *)
SummaryAdd_CountOnImprove(sm, r) ==
  LET t == IF \E k \in DOMAIN sm : sm[k].key = r.state THEN sm
           ELSE Append(sm, [key |-> r.state,
                            val |-> [count |-> 0, min_da |-> [w |-> 999, f |-> 0]]])
      k == CHOOSE k \in DOMAIN t : t[k].key = r.state
      better == FloatLess(r.da, t[k].val.min_da)
  IN [t EXCEPT ![k].val = [count |-> IF better THEN t[k].val.count + 1
                                     ELSE t[k].val.count,
                           min_da |-> FloatMin(t[k].val.min_da, r.da)]]

(* count += 1; min_da = min(min_da, da) *)
SummaryAdd(sm, r) ==
  LET t == Touch(sm, r.state)
      k == DictIndex(t, r.state)
  IN [t EXCEPT ![k].val = [count |-> t[k].val.count + 1,
                           min_da |-> FloatMin(t[k].val.min_da, r.da)]]

----------------------------------------------------------------------------
(* main: the two csv files *)

(* str(n) of a natural number. *)
RECURSIVE NatStr(_)
NatStr(n) ==
  IF n < 10 THEN <<Digits[n + 1]>>
  ELSE NatStr(n \div 10) \o <<Digits[(n % 10) + 1]>>

(* f"{x:.3f}" *)
Fmt3(x) ==
  NatStr(x.w) \o <<".">> \o
  <<Digits[(x.f \div 100) + 1], Digits[((x.f \div 10) % 10) + 1],
    Digits[(x.f % 10) + 1]>>

DetailHeader ==
  <<"State", "CenterChain", "CenterAtom(312)", "PartnerChain", "PartnerAtom",
    "Min_D..A(A)">>

SummaryHeader == <<"State", "HBonds_involving_312", "Min_D..A(A)">>

DetailLine(r) == <<r.state, r.c1, r.center, r.c2, r.partner, Fmt3(r.da)>>

SummaryLine(e) == <<e.key, e.val.count, Fmt3(e.val.min_da)>>

----------------------------------------------------------------------------
(* plot_HBonds_summary_gui.py *)

(* required_cols *)
RequiredCols == {"State", "ResidueName", "Is312Neighbor"}

(* Column names a csv header is made of; names are compared exactly. *)
ColPool == RequiredCols \cup {"state", "Category"}

(* Data rows: only the cells under the three required columns are read. *)
EnvRow(st, res, nb) == [State |-> st, ResidueName |-> res, Is312Neighbor |-> nb]

RowPool ==
  { EnvRow("WT", "ASP", TRUE), EnvRow("Mut", "ASN", TRUE),
    EnvRow("WT", "LYS", TRUE), EnvRow("Mut", "LEU", FALSE),
    EnvRow("Mut", "HOH", TRUE) }

(* pd.read_csv(path): the header and the data rows. *)
ReadCsv(cols, rs) == [columns |-> cols, rows |-> rs]

(* A test that is content with any one of the required columns. *)
MissingRequired_AnyOne(columns) == RequiredCols \cap columns = {}

(* "not required_cols.issubset(df.columns)" *)
MissingRequired(columns) == ~(RequiredCols \subseteq columns)

(* ValueError(f"...{required_cols}"): the text and the sets printed in it. *)
MissingMessage == [text |-> "CSV lacks required fields", shown |-> <<RequiredCols>>]

RESIDUE_CATEGORIES ==
  [hydrophobic |-> {"ALA", "VAL", "LEU", "ILE", "MET", "PHE", "TRP", "PRO"},
   polar |-> {"SER", "THR", "ASN", "GLN", "TYR", "CYS"},
   positive |-> {"LYS", "ARG", "HIS"},
   negative |-> {"ASP", "GLU"}]

CategoryOrder == <<"hydrophobic", "polar", "positive", "negative">>

(* The first category, in the dict's order, that holds the name. *)
classify_residue(res) ==
  IF \E k \in DOMAIN CategoryOrder : res \in RESIDUE_CATEGORIES[CategoryOrder[k]]
  THEN CategoryOrder[CHOOSE k \in DOMAIN CategoryOrder :
         /\ res \in RESIDUE_CATEGORIES[CategoryOrder[k]]
         /\ \A j \in 1..(k - 1) : res \notin RESIDUE_CATEGORIES[CategoryOrder[j]]]
  ELSE "other"

(* df[df["Is312Neighbor"] == True] *)
Neighbours(rs) == SelectSeq(rs, LAMBDA r : r.Is312Neighbor = TRUE)

(* groupby(["State", "Category"]).size().unstack(fill_value=0), and each   *)
(* count over its row's sum: one line per state, one column per category   *)
(* that occurs.                                                            *)
summarize_composition(df) ==
  LET nb == Neighbours(df.rows)
      sts == {nb[k].State : k \in DOMAIN nb}
      cats == {classify_residue(nb[k].ResidueName) : k \in DOMAIN nb}
      cnt(st, c) == Cardinality({k \in DOMAIN nb :
                      nb[k].State = st /\ classify_residue(nb[k].ResidueName) = c})
      tot(st) == Cardinality({k \in DOMAIN nb : nb[k].State = st})
  IN [states |-> sts,
      categories |-> cats,
      count |-> [x \in sts \X cats |-> cnt(x[1], x[2])],
      ratio |-> [x \in sts \X cats |-> [num |-> cnt(x[1], x[2]), den |-> tot(x[1])]]]

(* This script is not running. *)
EnvIdle ==
  /\ envCols = {}
  /\ envRows = <<>>
  /\ envPc = "idle"
  /\ envDf = <<>>
  /\ envError = <<>>
  /\ envSummary = <<>>
  /\ envOut = <<>>

(* The hydrogen-bond script is not running. *)
HbIdle ==
  /\ mutLines = <<>>
  /\ wtLines = <<>>
  /\ pc = "idle"
  /\ i = 1
  /\ prows = <<>>
  /\ rows = <<>>
  /\ best = <<>>
  /\ detail = <<>>
  /\ summary = <<>>
  /\ outDetail = <<>>
  /\ outSum = <<>>

----------------------------------------------------------------------------
Init ==
  /\ \E n \in 0..MaxLines : \E k \in 0..n :
       /\ mutLines \in SeqsOfLen(LinePool, k)
       /\ wtLines \in SeqsOfLen(LinePool, n - k)
  /\ pc = "parse_mut"
  /\ i = 1
  /\ prows = <<>>
  /\ rows = <<>>
  /\ best = <<>>
  /\ detail = <<>>
  /\ summary = <<>>
  /\ outDetail = <<>>
  /\ outSum = <<>>
  /\ EnvIdle

(* One line of the file being parsed. *)
ParseStep ==
  /\ pc \in {"parse_mut", "parse_wt"}
  /\ i <= Len(CurLines)
  /\ prows' = prows \o ParseLine(CurLines[i], CurLabel)
  /\ i' = i + 1
  /\ UNCHANGED <<mutLines, wtLines, pc, rows, best, detail, summary,
                 outDetail, outSum>>
  /\ UNCHANGED envVars

(* "return rows" of parse_hbonds and "rows += ..." of main. *)
ParseReturn ==
  /\ pc \in {"parse_mut", "parse_wt"}
  /\ i > Len(CurLines)
  /\ rows' = rows \o prows
  /\ prows' = <<>>
  /\ i' = 1
  /\ pc' = IF pc = "parse_mut" THEN "parse_wt" ELSE "reduce"
  /\ UNCHANGED <<mutLines, wtLines, best, detail, summary, outDetail, outSum>>
  /\ UNCHANGED envVars

(* One iteration of "for state, c1, center, c2, partner, da in rows". *)
ReduceStep ==
  /\ pc = "reduce"
  /\ i <= Len(rows)
  /\ best' = BestUpdate(best, rows[i])
  /\ i' = i + 1
  /\ UNCHANGED <<mutLines, wtLines, pc, prows, rows, detail, summary,
                 outDetail, outSum>>
  /\ UNCHANGED envVars

(* detail = sorted(...) and the detail csv. *)
SortAndWriteDetail ==
  /\ pc = "reduce"
  /\ i > Len(rows)
  /\ detail' = Sorted(Items(best))
  /\ outDetail' = <<DetailHeader>> \o [k \in DOMAIN detail' |-> DetailLine(detail'[k])]
  /\ i' = 1
  /\ pc' = "summarise"
  /\ UNCHANGED <<mutLines, wtLines, prows, rows, best, summary, outSum>>
  /\ UNCHANGED envVars

(* One iteration of "for state, *_, da in detail". *)
SummaryStep ==
  /\ pc = "summarise"
  /\ i <= Len(detail)
  /\ summary' = SummaryAdd(summary, detail[i])
  /\ i' = i + 1
  /\ UNCHANGED <<mutLines, wtLines, pc, prows, rows, best, detail,
                 outDetail, outSum>>
  /\ UNCHANGED envVars

(* The summary csv, one line per state in the dict's order. *)
WriteSummary ==
  /\ pc = "summarise"
  /\ i > Len(detail)
  /\ outSum' = <<SummaryHeader>> \o [k \in DOMAIN summary |-> SummaryLine(summary[k])]
  /\ pc' = "done"
  /\ UNCHANGED <<mutLines, wtLines, i, prows, rows, best, detail, summary,
                 outDetail>>
  /\ UNCHANGED envVars

Next ==
  \/ ParseStep
  \/ ParseReturn
  \/ ReduceStep
  \/ SortAndWriteDetail
  \/ SummaryStep
  \/ WriteSummary

Spec == Init /\ [][Next]_vars

----------------------------------------------------------------------------
(* main of plot_HBonds_summary_gui.py *)

InitEnv ==
  /\ envCols \in SUBSET ColPool
  /\ \E n \in 0..MaxEnvRows : envRows \in SeqsOfLen(RowPool, n)
  /\ envPc = "load"
  /\ envDf = <<>>
  /\ envError = <<>>
  /\ envSummary = <<>>
  /\ envOut = <<>>
  /\ HbIdle

(* load_env_table raises: main does not catch it and the process ends. *)
LoadFail ==
  /\ envPc = "load"
  /\ MissingRequired(ReadCsv(envCols, envRows).columns)
  /\ envError' = <<MissingMessage>>
  /\ envPc' = "failed"
  /\ UNCHANGED <<envCols, envRows, envDf, envSummary, envOut>>
  /\ UNCHANGED hbVars

(* load_env_table returns df. *)
LoadReturn ==
  /\ envPc = "load"
  /\ ~MissingRequired(ReadCsv(envCols, envRows).columns)
  /\ envDf' = <<ReadCsv(envCols, envRows)>>
  /\ envPc' = "summarise"
  /\ UNCHANGED <<envCols, envRows, envError, envSummary, envOut>>
  /\ UNCHANGED hbVars

(* summary = summarize_composition(df) *)
Summarise ==
  /\ envPc = "summarise"
  /\ envSummary' = <<summarize_composition(envDf[1])>>
  /\ envPc' = "export"
  /\ UNCHANGED <<envCols, envRows, envDf, envError, envOut>>
  /\ UNCHANGED hbVars

(* summary.to_csv(out_csv) and the stacked bar chart of the ratios. *)
Export ==
  /\ envPc = "export"
  /\ envOut' = <<[csv |-> envSummary[1], png |-> envSummary[1].ratio]>>
  /\ envPc' = "done"
  /\ UNCHANGED <<envCols, envRows, envDf, envError, envSummary>>
  /\ UNCHANGED hbVars

NextEnv ==
  \/ LoadFail
  \/ LoadReturn
  \/ Summarise
  \/ Export

SpecEnv == InitEnv /\ [][NextEnv]_vars
----------------------------------------------------------------------------
(* Vocabulary of the properties *)

Parsing == pc \in {"parse_mut", "parse_wt"}

(* detail has been computed. *)
Reduced == pc \in {"summarise", "done"}

Has312(n) == IntOf(n) = TargetResidue

EndA(d) == [c |-> d.c1, id |-> d.r1 \o d.n1 \o d.a1, n |-> d.n1]

EndB(d) == [c |-> d.c2, id |-> d.r2 \o d.n2 \o d.a2, n |-> d.n2]

(* The line has the grammar's shape and 312 on endpoint A or endpoint B. *)
Qualifies(line) == line.shaped /\ (Has312(line.d.n1) \/ Has312(line.d.n2))

SelfPair(d) == Has312(d.n1) /\ Has312(d.n2)

ExactlyOne312(d) == Has312(d.n1) # Has312(d.n2)

(* How many of the first a lines qualify: the position of line a's record. *)
RowIdx(lines, a) == Cardinality({k \in 1..a : Qualifies(lines[k])})

(* The lines of the current file that the loop has gone through. *)
Seen == 1..(i - 1)

(* The record of an already parsed qualifying line of the current file. *)
HasRow(a) == RowIdx(CurLines, a) \in DOMAIN prows

RowOf(a) == prows[RowIdx(CurLines, a)]

IsDigit(c) == \E k \in DOMAIN Digits : Digits[k] = c

(* The residue number read back from an identifier: the digits that follow *)
(* the three letters of the residue name.                                  *)
ResNum(id) ==
  LET e == CHOOSE k \in 3..Len(id) :
             /\ \A j \in 4..k : IsDigit(id[j])
             /\ (k = Len(id) \/ ~IsDigit(id[k + 1]))
  IN IntOf(SubSeq(id, 4, e))

AllRecords ==
  {prows[k] : k \in DOMAIN prows} \cup {rows[k] : k \in DOMAIN rows}
    \cup {detail[k] : k \in DOMAIN detail}

RawKeys(n) == {KeyOf(rows[k]) : k \in 1..n}

(* The raw distances recorded under a key. *)
RawDistances(key) == {rows[k].da : k \in {j \in DOMAIN rows : KeyOf(rows[j]) = key}}

IsMinOf(x, S) == x \in S /\ \A y \in S : ~FloatLess(y, x)

Orders(n) == {p \in [1..n -> 1..n] : \A a, b \in 1..n : p[a] = p[b] => a = b}

(* The reduction loop run over a whole sequence of records. *)
RECURSIVE ReduceAll(_)
ReduceAll(rs) ==
  IF Len(rs) = 0 THEN <<>>
  ELSE BestUpdate(ReduceAll(SubSeq(rs, 1, Len(rs) - 1)), rs[Len(rs)])

DetailOf(rs) == Sorted(Items(ReduceAll(rs)))

RECURSIVE SummaryOf(_)
SummaryOf(ds) ==
  IF Len(ds) = 0 THEN <<>>
  ELSE SummaryAdd(SummaryOf(SubSeq(ds, 1, Len(ds) - 1)), ds[Len(ds)])

----------------------------------------------------------------------------
(* C1. Dedup minimality: once the reduction is done, for every            *)
(* deduplication key among the raw records the detail row with that key    *)
(* carries the minimum of the raw distances recorded under the key: it is  *)
(* one of them and none of them is smaller.                                *)
C1_DedupMinimality ==
  Reduced =>
    \A k \in DOMAIN rows :
      \E j \in DOMAIN detail :
        /\ KeyOf(detail[j]) = KeyOf(rows[k])
        /\ IsMinOf(detail[j].da, RawDistances(KeyOf(rows[k])))

(* C2 as stated. Orientation: in every record the residue number embedded *)
(* in the center identifier is 312 and the one embedded in the partner     *)
(* identifier is never 312.                                                *)
C2_PartnerNever312 ==
  \A r \in AllRecords : ResNum(r.center) = TargetResidue /\ ResNum(r.partner) # TargetResidue

(* C2 as amended. Orientation: the record of every parsed line is built   *)
(* with an endpoint of residue number 312 as center and the line's other   *)
(* endpoint as partner; the partner's residue number is 312 exactly when   *)
(* the line carries 312 on both endpoints. Every detail row has 312        *)
(* embedded in its center identifier.                                      *)
C2_CenterIs312 ==
  /\ Parsing =>
       \A a \in Seen :
         Qualifies(CurLines[a]) =>
           /\ HasRow(a)
           /\ \E e \in {<<EndA(CurLines[a].d), EndB(CurLines[a].d)>>,
                        <<EndB(CurLines[a].d), EndA(CurLines[a].d)>>} :
                /\ Has312(e[1].n)
                /\ RowOf(a).c1 = e[1].c /\ RowOf(a).center = e[1].id
                /\ RowOf(a).c2 = e[2].c /\ RowOf(a).partner = e[2].id
           /\ (ResNum(RowOf(a).partner) = TargetResidue) <=> SelfPair(CurLines[a].d)
  /\ pc = "done" => \A k \in DOMAIN detail : ResNum(detail[k].center) = TargetResidue

(* A line with 312 on endpoint B only and a line with 312 on both         *)
(* endpoints have been parsed into records.                                *)
C2_Witness ==
  /\ Parsing
  /\ Len(prows) >= 2
  /\ \E a \in Seen : CurLines[a].shaped /\ SelfPair(CurLines[a].d)
  /\ \E a \in Seen : CurLines[a].shaped /\ ~Has312(CurLines[a].d.n1)
                       /\ Has312(CurLines[a].d.n2)

(* C3. Order independence: whatever the order in which the raw records    *)
(* arrive, reducing and sorting them yields the same detail sequence and   *)
(* the same summary sequence.                                              *)
C3_OrderIndependent ==
  pc = "done" =>
    \A p \in Orders(Len(rows)) :
      LET permuted == [k \in 1..Len(rows) |-> rows[p[k]]] IN
        /\ DetailOf(permuted) = detail
        /\ SummaryOf(DetailOf(permuted)) = summary

States(ds) == {ds[k].state : k \in DOMAIN ds}

RowsOfState(ds, st) == {k \in DOMAIN ds : ds[k].state = st}

(* The position at which a state first appears in a sequence of rows. *)
FirstAt(ds, st) == CHOOSE k \in RowsOfState(ds, st) : \A j \in RowsOfState(ds, st) : k <= j

(* The detail rows that the summary loop has gone through. *)
Summarised == IF pc = "done" THEN detail ELSE SubSeq(detail, 1, i - 1)

(* C4. Count consistency: the count of every summary entry is the number  *)
(* of detail rows of its state, after every step of the summary loop and   *)
(* in the line written to the summary file.                                *)
C4_CountConsistent ==
  /\ Reduced =>
       \A k \in DOMAIN summary :
         summary[k].val.count = Cardinality(RowsOfState(Summarised, summary[k].key))
  /\ pc = "done" =>
       \A st \in States(detail) :
         \E k \in 2..Len(outSum) :
           outSum[k][1] = st /\ outSum[k][2] = Cardinality(RowsOfState(detail, st))

(* The summary is written with a state of two detail rows and a state of  *)
(* one.                                                                    *)
C4_Witness ==
  /\ pc = "done"
  /\ Len(detail) = 3
  /\ \E k \in DOMAIN summary : summary[k].val.count = 2
  /\ \E k \in DOMAIN summary : summary[k].val.count = 1

(* C5. Summary minimum: the min distance of every summary entry is the    *)
(* minimum of the distances of the detail rows of its state.               *)
C5_SummaryMinimum ==
  pc = "done" =>
    \A k \in DOMAIN summary :
      IsMinOf(summary[k].val.min_da,
              {detail[j].da : j \in RowsOfState(detail, summary[k].key)})

(* C6 as stated. Self-pair pass-through: the record of a line with 312 on *)
(* both endpoints has its center built from endpoint A and its partner     *)
(* from endpoint B, as written in the line.                                *)
C6_SelfPairUnswapped ==
  Parsing =>
    \A a \in Seen :
      (CurLines[a].shaped /\ SelfPair(CurLines[a].d)) =>
        /\ HasRow(a)
        /\ RowOf(a).c1 = EndA(CurLines[a].d).c
        /\ RowOf(a).center = EndA(CurLines[a].d).id
        /\ RowOf(a).c2 = EndB(CurLines[a].d).c
        /\ RowOf(a).partner = EndB(CurLines[a].d).id

(* C6 as amended. A line with 312 on both endpoints is swapped like any   *)
(* line with 312 on endpoint B: its record has its center built from       *)
(* endpoint B and its partner from endpoint A, with the line's distance    *)
(* and the caller's label.                                                 *)
C6_SelfPairSwapped ==
  Parsing =>
    \A a \in Seen :
      (CurLines[a].shaped /\ SelfPair(CurLines[a].d)) =>
        /\ HasRow(a)
        /\ RowOf(a).c1 = EndB(CurLines[a].d).c
        /\ RowOf(a).center = EndB(CurLines[a].d).id
        /\ RowOf(a).c2 = EndA(CurLines[a].d).c
        /\ RowOf(a).partner = EndA(CurLines[a].d).id
        /\ RowOf(a).da = FloatOf(CurLines[a].d.da)
        /\ RowOf(a).state = CurLabel

(* A line with 312 on both endpoints, and different endpoints, is parsed. *)
C6_Witness ==
  /\ Parsing
  /\ \E a \in Seen :
       /\ CurLines[a].shaped /\ SelfPair(CurLines[a].d)
       /\ EndA(CurLines[a].d) # EndB(CurLines[a].d)
       /\ HasRow(a)

(* Line e is line d with the two endpoints exchanged. *)
Exchanged(d, e) ==
  /\ e.m1 = d.m2 /\ e.c1 = d.c2 /\ e.r1 = d.r2 /\ e.n1 = d.n2 /\ e.a1 = d.a2
  /\ e.m2 = d.m1 /\ e.c2 = d.c1 /\ e.r2 = d.r1 /\ e.n2 = d.n1 /\ e.a2 = d.a1
  /\ e.da = d.da

MirrorPair(lines, a, b) ==
  /\ lines[a].shaped /\ lines[b].shaped
  /\ Exchanged(lines[a].d, lines[b].d)
  /\ ExactlyOne312(lines[a].d)

(* The endpoint of d that carries 312, and the other one. *)
Center312(d) == IF Has312(d.n1) THEN EndA(d) ELSE EndB(d)

Other312(d) == IF Has312(d.n1) THEN EndB(d) ELSE EndA(d)

(* The detail rows of a state that join the two endpoints of d. *)
DetailRowsFor(st, d) ==
  {j \in DOMAIN detail :
     /\ detail[j].state = st
     /\ detail[j].c1 = Center312(d).c /\ detail[j].center = Center312(d).id
     /\ detail[j].c2 = Other312(d).c /\ detail[j].partner = Other312(d).id}

(* C7. Orientation-independent equality: two lines of one file that are   *)
(* each other with the endpoints exchanged, 312 on exactly one endpoint,   *)
(* give equal records with the distance of the line, and one detail row.   *)
C7_MirrorEqual ==
  /\ Parsing =>
       \A a, b \in Seen :
         MirrorPair(CurLines, a, b) =>
           /\ HasRow(a) /\ HasRow(b)
           /\ RowOf(a) = RowOf(b)
           /\ RowOf(a).da = FloatOf(CurLines[a].d.da)
  /\ Reduced =>
       /\ \A a, b \in DOMAIN mutLines :
            MirrorPair(mutLines, a, b) =>
              Cardinality(DetailRowsFor(MutLabel, mutLines[a].d)) = 1
       /\ \A a, b \in DOMAIN wtLines :
            MirrorPair(wtLines, a, b) =>
              Cardinality(DetailRowsFor(WtLabel, wtLines[a].d)) = 1

(* Both lines of a mirrored pair are parsed. *)
C7_Witness ==
  /\ Parsing
  /\ \E a, b \in Seen : a # b /\ MirrorPair(CurLines, a, b) /\ HasRow(a) /\ HasRow(b)

(* Record r is made of the two endpoints and the distance of line d. *)
MadeFrom(r, d) ==
  /\ r.da = FloatOf(d.da)
  /\ \/ (/\ r.c1 = EndA(d).c /\ r.center = EndA(d).id
         /\ r.c2 = EndB(d).c /\ r.partner = EndB(d).id)
     \/ (/\ r.c1 = EndB(d).c /\ r.center = EndB(d).id
         /\ r.c2 = EndA(d).c /\ r.partner = EndA(d).id)

(* C8. Extraction filter and order: at every point of the loop there is  *)
(* one record per qualifying line gone through and none for the other      *)
(* lines, the record of a line stands at the line's rank among the         *)
(* qualifying lines and carries the caller's label. The records handed to  *)
(* main are those of the first file followed by those of the second.       *)
C8_FilterAndOrder ==
  /\ Parsing =>
       /\ Len(prows) = RowIdx(CurLines, i - 1)
       /\ \A a \in Seen :
            Qualifies(CurLines[a]) =>
              /\ RowOf(a).state = CurLabel
              /\ MadeFrom(RowOf(a), CurLines[a].d)
  /\ pc = "reduce" =>
       LET nm == RowIdx(mutLines, Len(mutLines)) IN
         /\ Len(rows) = nm + RowIdx(wtLines, Len(wtLines))
         /\ \A a \in DOMAIN mutLines :
              Qualifies(mutLines[a]) =>
                /\ rows[RowIdx(mutLines, a)].state = MutLabel
                /\ MadeFrom(rows[RowIdx(mutLines, a)], mutLines[a].d)
         /\ \A a \in DOMAIN wtLines :
              Qualifies(wtLines[a]) =>
                /\ rows[nm + RowIdx(wtLines, a)].state = WtLabel
                /\ MadeFrom(rows[nm + RowIdx(wtLines, a)], wtLines[a].d)

(* Three lines are gone through: two give different records and one,      *)
(* between them, gives none.                                               *)
C8_Witness ==
  /\ Parsing
  /\ i = 4
  /\ Len(prows) = 2
  /\ prows[1] # prows[2]
  /\ ~Qualifies(CurLines[2])

(* C9. Summary membership and order: the summary has one entry for each   *)
(* state among the detail rows gone through and no other, in the order in  *)
(* which the states first appear; the summary file has the same lines.     *)
C9_MembershipAndOrder ==
  /\ Reduced =>
       /\ \A k, j \in DOMAIN summary : summary[k].key = summary[j].key => k = j
       /\ {summary[k].key : k \in DOMAIN summary} = States(Summarised)
       /\ \A k, j \in DOMAIN summary :
            k < j => FirstAt(Summarised, summary[k].key) < FirstAt(Summarised, summary[j].key)
  /\ pc = "done" =>
       /\ Len(outSum) = 1 + Len(summary)
       /\ \A k \in DOMAIN summary : outSum[k + 1][1] = summary[k].key

(* Both states have detail rows and the summary is written. *)
C9_Witness ==
  /\ pc = "done"
  /\ Len(summary) = 2
  /\ Len(detail) = 3

DistinctKeys(ds) == \A k, j \in DOMAIN ds : KeyOf(ds[k]) = KeyOf(ds[j]) => k = j

(* C10. Key uniqueness and coverage: after every prefix of the raw        *)
(* sequence the accumulating mapping holds each key of the prefix once and *)
(* no other key; the detail rows hold each key of the raw records once.    *)
C10_KeysUniqueAndCovered ==
  /\ pc = "reduce" =>
       /\ \A k, j \in DOMAIN best : best[k].key = best[j].key => k = j
       /\ {best[k].key : k \in DOMAIN best} = RawKeys(i - 1)
  /\ Reduced =>
       /\ DistinctKeys(detail)
       /\ {KeyOf(detail[k]) : k \in DOMAIN detail} = RawKeys(Len(rows))

(* Three raw records of two keys have been reduced. *)
C10_Witness ==
  /\ pc = "reduce"
  /\ i = 4
  /\ Len(best) = 2

----------------------------------------------------------------------------
(* The sets of column names printed in the failure. *)
ShownInError == {envError[1].shown[k] : k \in DOMAIN envError[1].shown}

Loaded == envPc \in {"summarise", "export", "done"}

(* C11 as stated. Malformed input structure: when the call has failed,    *)
(* the failure lists both the columns that were found and the columns      *)
(* that were expected.                                                     *)
C11_ListsFoundAndExpected ==
  envPc = "failed" =>
    /\ Len(envError) = 1
    /\ RequiredCols \in ShownInError
    /\ envCols \in ShownInError

(* C11 as amended. When the table lacks any of State, ResidueName,        *)
(* Is312Neighbor the call fails: no table is returned, no summary is       *)
(* computed or written, and the failure lists the expected columns and     *)
(* nothing else. When all three are present the call returns the table as  *)
(* read and no failure is raised.                                          *)
C11_MissingColumnsFatal ==
  /\ envPc = "failed" =>
       /\ \E c \in {"State", "ResidueName", "Is312Neighbor"} : c \notin envCols
       /\ envDf = <<>> /\ envSummary = <<>> /\ envOut = <<>>
       /\ Len(envError) = 1
       /\ ShownInError = {{"State", "ResidueName", "Is312Neighbor"}}
  /\ Loaded =>
       /\ \A c \in {"State", "ResidueName", "Is312Neighbor"} : c \in envCols
       /\ envError = <<>>
       /\ envDf = <<[columns |-> envCols, rows |-> envRows]>>

(* The call has failed on a table that has two of the required columns    *)
(* and another column.                                                     *)
C11_Witness ==
  /\ envPc = "failed"
  /\ Cardinality(envCols \cap {"State", "ResidueName", "Is312Neighbor"}) = 2
  /\ "Category" \in envCols
  /\ Len(envRows) > 0
====
